---------------------------- MODULE Spec2Model ----------------------------
(***************************************************************************)
(* A model of sandrololo/3d-data-viewer:                                   *)
(*   - the WGSL render programs src/src/shader.wgsl (current) and          *)
(*     src/unnamed/part_001 (an earlier variant of the same program),      *)
(*     specification SpecShader;                                           *)
(*   - the host page script src/wasm-demo/src/demo.js (mode buttons, pixel *)
(*     polling loop, start-up of main), specifications Spec and FairSpec;  *)
(*   - the static file server src/unnamed/part_000, specification          *)
(*     SpecServer.                                                         *)
(*                                                                         *)
(* Numbers.  f32 values are modelled as exact rationals <<n, d>> with      *)
(* d > 0; <<0, 0>> stands for a non-finite f32 (the result of a division   *)
(* by zero: an infinity or a NaN).  u32 values are modelled by their bit   *)
(* pattern read as a two's-complement integer: a negative integer n stands *)
(* for the u32 value 2^32 + n (so 0u - 1u is -1, i.e. 4294967295).         *)
(***************************************************************************)
EXTENDS Integers, Sequences, FiniteSets, TLC

VARIABLES
    \* ---- GPU side: uniforms and the last vertex / fragment invocation
    program,        \* which shader file is the render program
    image_dims,     \* uniform ImageDimensions {width, height}
    z_range,        \* uniform ZValueRange {min, max}
    mip_level,      \* uniform mip_level (shader.wgsl only)
    vindex,         \* data.index of the last vertex invocation, or -1
    z_sample,       \* the texel textureLoad returned to that invocation
    vout,           \* its VertexOutput, or NoOutput
    fcall,          \* fragment entry point run on vout and the texel it loaded
    fout,           \* the FragmentOutput computed from vout, or NoOutput
    lodCmd,         \* the last mip-level command and whether it was rejected
    \* ---- host page (demo.js)
    wasmViewer,     \* TRUE: a viewer instance, FALSE: null
    isHeightMode,
    isPollingEnabled,
    isPolling,
    btnHeightActive,      \* btnHeight.classList contains 'active'
    btnAmplitudeActive,   \* btnAmplitude.classList contains 'active'
    shaderCmds,     \* shader-switch commands sent to the viewer, in order
    startupPc,      \* position of the 500 ms start-up callback of main
    loadingHidden,  \* loadingOverlay.classList contains 'hidden'
    awaiting,       \* number of pollOnce activations awaiting get_pixel_value
    pollTimers,     \* number of pending setTimeout(pollOnce, 100)
    readout,        \* text of the pixel readout <<x, y, z>>
    lastSettle,     \* how the call of the current pollOnce settled, "none" before
    initCall,       \* the initWasm() call of main: what threw, what it returned
    errorVisible,   \* errorOverlay.classList contains 'visible'
    uploads,        \* set_surface / set_amplitude calls made on the viewer
    fetched,        \* the data files main's timer callback has fetched
    \* ---- picking controller behind get_pixel_value (viewer side)
    pickTarget,     \* last requested screen position, 0 when none
    prevTarget,     \* the position requested before that, 0 when none
    pickState,      \* "Idle" | "Requested" | "Resolved"
    pickResult,     \* position the available PickResult was resolved for
    requests,       \* number of pick requests recorded so far
    deliveredSince, \* positions of the results shown since the last request
    \* ---- static server (src/unnamed/part_000)
    request         \* the request handled: url, filePath, response; or NoOutput

gpuVars == <<program, image_dims, z_range, mip_level, vindex, z_sample, vout, fcall, fout, lodCmd>>
modeVars == <<isHeightMode, btnHeightActive, btnAmplitudeActive, shaderCmds>>
pollVars == <<isPollingEnabled, isPolling, awaiting, pollTimers, readout, lastSettle>>
pickVars == <<pickTarget, prevTarget, pickState, pickResult, requests, deliveredSince>>
initVars == <<initCall, errorVisible>>
hostVars == <<wasmViewer, modeVars, pollVars, pickVars, startupPc, loadingHidden, initVars, uploads, fetched>>
serverVars == <<request>>
vars == <<gpuVars, hostVars, serverVars>>

(***************************************************************************)
(* Bounds of the model.                                                    *)
(***************************************************************************)
MaxDim == 8         \* largest image width / height
MaxMip == 2         \* largest mip level a command asks for
MaxRange == 2       \* z_range bounds are drawn from 0..MaxRange
MaxPos == 2         \* number of distinct screen positions
MaxRequests == 2    \* pick requests per run
MaxCmds == 2        \* shader-switch commands per run
MaxUrlLen == 6      \* longest request URL, in characters

NoOutput == [none |-> TRUE]

(***************************************************************************)
(* f32 arithmetic over exact rationals.                                    *)
(***************************************************************************)
NonFinite == <<0, 0>>

IsFinite(a) == a[2] # 0

F32(n) == <<n, 1>>

Abs(n) == IF n < 0 THEN 0 - n ELSE n

RECURSIVE Gcd(_, _)
Gcd(a, b) == IF b = 0 THEN a ELSE Gcd(b, a % b)

\* The rational n / d (d # 0) in lowest terms with a positive denominator.
Norm(n, d) ==
    LET g == Gcd(Abs(n), Abs(d))
        sgn == IF d < 0 THEN -1 ELSE 1
    IN  <<sgn * (n \div g), sgn * (d \div g)>>

RAdd(a, b) ==
    IF IsFinite(a) /\ IsFinite(b)
    THEN Norm(a[1] * b[2] + b[1] * a[2], a[2] * b[2])
    ELSE NonFinite

RSub(a, b) ==
    IF IsFinite(a) /\ IsFinite(b)
    THEN Norm(a[1] * b[2] - b[1] * a[2], a[2] * b[2])
    ELSE NonFinite

RMul(a, b) ==
    IF IsFinite(a) /\ IsFinite(b)
    THEN Norm(a[1] * b[1], a[2] * b[2])
    ELSE NonFinite

\* x / 0.0 is an infinity or a NaN.
RDiv(a, b) ==
    IF ~IsFinite(a) \/ ~IsFinite(b) \/ b[1] = 0 THEN NonFinite
    ELSE Norm(a[1] * b[2], a[2] * b[1])

REq(a, b) == IsFinite(a) /\ IsFinite(b) /\ a[1] * b[2] = b[1] * a[2]

RLe(a, b) == IsFinite(a) /\ IsFinite(b) /\ a[1] * b[2] <= b[1] * a[2]

RGt(a, b) == IsFinite(a) /\ IsFinite(b) /\ a[1] * b[2] > b[1] * a[2]

\* Mutant of clamp: the sample passes through unclamped.
clamp_none(e, low, high) == e

\* WGSL clamp(e, low, high) = min(max(e, low), high)
clamp(e, low, high) ==
    LET m == IF RLe(e, low) THEN low ELSE e
    IN  IF RLe(high, m) THEN high ELSE m

Max(a, b) == IF a >= b THEN a ELSE b

\* u32 subtraction, wrapping modulo 2^32 (bit pattern, see the header)
U32Sub(a, b) == a - b

\* 2.0 * f32(c) / f32(n) for a u32 n.  n = 0 divides by zero.  A wrapped n
\* (4294967295, which f32 rounds to 2^32) makes the quotient c * 2^-31, which
\* the following "- 1.0" / "1.0 -" absorbs in f32 for every c < 2^6: the
\* quotient is modelled as 0 there.
NdcQuot(c, n) ==
    IF n = 0 THEN NonFinite
    ELSE IF n < 0 THEN F32(0)
    ELSE RDiv(F32(2 * c), F32(n))

(***************************************************************************)
(* Textures.                                                               *)
(***************************************************************************)
Pow2(k) == 2 ^ k

\* The surface of the reference scenario: heights = [0, 1, 2, ...] row-major.
SurfaceTexel(x, y) == F32(y * image_dims.width + x)

\* Extent of one dimension of mip level `level` of a texture of extent d.
MipExtent(d, level) == Max(d \div Pow2(level), 1)

\* Texel (c, r) of mip level `level`: the decimated full-resolution sample.
MipTexel(c, r, level) == SurfaceTexel(c * Pow2(level), r * Pow2(level))

\* textureLoad(surface_texture, vec2<u32>(c, r), level): the set of values the
\* load may return.  Inside the level's extent it is the texel; outside, WGSL
\* leaves the result to the implementation: some texel of the level, or zero.
textureLoad(c, r, level) ==
    IF c < MipExtent(image_dims.width, level) /\ r < MipExtent(image_dims.height, level)
    THEN {MipTexel(c, r, level)}
    ELSE {F32(0)} \cup
         {MipTexel(cc, rr, level) :
             cc \in 0..(MipExtent(image_dims.width, level) - 1),
             rr \in 0..(MipExtent(image_dims.height, level) - 1)}

(***************************************************************************)
(* src/src/shader.wgsl                                                     *)
(***************************************************************************)
\* Mutant of Resize: the stride doubles once more per level.
Resize_x4(mip) == Max(mip * 4, 1)

\* let resize = max(mip_level * 2u, 1u);
Resize(mip) == Max(mip * 2, 1)

\* Mutant of vs_main: y is not flipped (row 0 at the bottom), as in the first
\* grid shader of the repository.
vs_main_unflipped(index, texel) ==
    LET resize == Resize(mip_level)
        col == (index % image_dims.width) \div resize
        row == (index \div image_dims.width) \div resize
        x == RSub(NdcQuot(col, U32Sub(image_dims.width \div resize, 1)), F32(1))
        y == RSub(NdcQuot(row, U32Sub(image_dims.height \div resize, 1)), F32(1))
        z_clamped == clamp(texel, F32(z_range.min), F32(z_range.max))
        z == RSub(F32(1), RDiv(RSub(z_clamped, F32(z_range.min)),
                               RSub(F32(z_range.max), F32(z_range.min))))
    IN  [points |-> <<x, y, z>>,
         pixel |-> <<col, row>>,
         z_value |-> z_clamped,
         resize |-> resize]

\* Mutant of vs_main: NDC divides by the effective extent, not by extent - 1.
vs_main_fullextent(index, texel) ==
    LET resize == Resize(mip_level)
        col == (index % image_dims.width) \div resize
        row == (index \div image_dims.width) \div resize
        x == RSub(NdcQuot(col, image_dims.width \div resize), F32(1))
        y == RSub(F32(1), NdcQuot(row, image_dims.height \div resize))
        z_clamped == clamp(texel, F32(z_range.min), F32(z_range.max))
        z == RSub(F32(1), RDiv(RSub(z_clamped, F32(z_range.min)),
                               RSub(F32(z_range.max), F32(z_range.min))))
    IN  [points |-> <<x, y, z>>,
         pixel |-> <<col, row>>,
         z_value |-> z_clamped,
         resize |-> resize]

\* vs_main, given the texel its textureLoad returned.  `points` is the grid
\* position before the camera matrices (opaque inputs of the host) apply.
vs_main(index, texel) ==
    LET resize == Resize(mip_level)
        col == (index % image_dims.width) \div resize
        row == (index \div image_dims.width) \div resize
        x == RSub(NdcQuot(col, U32Sub(image_dims.width \div resize, 1)), F32(1))
        y == RSub(F32(1), NdcQuot(row, U32Sub(image_dims.height \div resize, 1)))
        z_clamped == clamp(texel, F32(z_range.min), F32(z_range.max))
        z == RSub(F32(1), RDiv(RSub(z_clamped, F32(z_range.min)),
                               RSub(F32(z_range.max), F32(z_range.min))))
    IN  [points |-> <<x, y, z>>,
         pixel |-> <<col, row>>,
         z_value |-> z_clamped,
         resize |-> resize]

\* Mutant of fs_height_depth: normalises by max alone.
fs_height_depth_bymax(in) ==
    RDiv(RSub(in.z_value, F32(z_range.min)), F32(z_range.max))

\* let depth = (in.z_value - z_range.min) / (z_range.max - z_range.min);
fs_height_depth(in) ==
    RDiv(RSub(in.z_value, F32(z_range.min)), RSub(F32(z_range.max), F32(z_range.min)))

\* Mutant of Blend: the overlay is taken as premultiplied by its alpha.
Blend_premultiplied(overlay_color, base_color) ==
    LET alpha == overlay_color[4]
        ch(i) == RAdd(overlay_color[i], RMul(base_color[i], RSub(F32(1), alpha)))
    IN  <<ch(1), ch(2), ch(3), F32(1)>>

\* overlay_color.rgb * alpha + base_color.rgb * (1.0 - alpha), alpha 1.0
Blend(overlay_color, base_color) ==
    LET alpha == overlay_color[4]
        ch(i) == RAdd(RMul(overlay_color[i], alpha),
                      RMul(base_color[i], RSub(F32(1), alpha)))
    IN  <<ch(1), ch(2), ch(3), F32(1)>>

\* Mutant of fs_amplitude: the picking datum is the LOD cell, not scaled back.
fs_amplitude_unscaled(in, sampled) ==
    [color |-> <<RSub(F32(1), sampled[1]), sampled[1], F32(0), F32(1)>>,
     picking |-> <<in.pixel[1], in.pixel[2]>>]

fs_amplitude(in, sampled) ==
    [color |-> <<RSub(F32(1), sampled[1]), sampled[1], F32(0), F32(1)>>,
     picking |-> <<in.pixel[1] * in.resize, in.pixel[2] * in.resize>>]

fs_height(in, overlay_color) ==
    LET depth == fs_height_depth(in)
        base_color == <<depth, depth, depth, F32(1)>>
    IN  [color |-> IF RGt(overlay_color[4], F32(0))
                   THEN Blend(overlay_color, base_color)
                   ELSE base_color,
         picking |-> <<in.pixel[1] * in.resize, in.pixel[2] * in.resize>>]

(***************************************************************************)
(* src/unnamed/part_001: the earlier variant, without mip levels, clamping *)
(* or a picking target.                                                    *)
(***************************************************************************)
p1_vs_main(index, texel) ==
    LET col == index % image_dims.width
        row == index \div image_dims.width
        x == RSub(NdcQuot(col, U32Sub(image_dims.width, 1)), F32(1))
        y == RSub(F32(1), NdcQuot(row, U32Sub(image_dims.height, 1)))
        z == RSub(F32(1), RDiv(RSub(texel, F32(z_range.min)),
                               RSub(F32(z_range.max), F32(z_range.min))))
    IN  [points |-> <<x, y, z>>,
         pixel |-> <<col, row>>,
         z_value |-> texel]

\* let depth = 0.05 + 0.95 * (in.z_value - z_range.min) / (z_range.max - z_range.min);
p1_fs_height_depth(in) ==
    RAdd(<<1, 20>>,
         RDiv(RMul(<<19, 20>>, RSub(in.z_value, F32(z_range.min))),
              RSub(F32(z_range.max), F32(z_range.min))))

p1_fs_amplitude(in, sampled) ==
    [color |-> <<RSub(F32(1), sampled[1]), sampled[1], F32(0), F32(1)>>]

p1_fs_height(in, overlay_color) ==
    LET depth == p1_fs_height_depth(in)
        base_color == <<depth, depth, depth, F32(1)>>
    IN  [color |-> IF RGt(overlay_color[4], F32(0))
                   THEN Blend(overlay_color, base_color)
                   ELSE base_color]

(***************************************************************************)
(* The render programs as a state machine: specification SpecShader.       *)
(***************************************************************************)
ShaderFile == "src/src/shader.wgsl"
Part001 == "src/unnamed/part_001"

\* Straight (non-premultiplied) alpha values of overlay texels.
Alphas == {<<0, 1>>, <<1, 4>>, <<1, 2>>, <<1, 1>>}

OverlayColors == {<<0, 0, 0>>, <<1, 0, 0>>, <<0, 1, 1>>, <<1, 1, 1>>}

OverlayTexels ==
    {<<F32(c[1]), F32(c[2]), F32(c[3]), a>> : c \in OverlayColors, a \in Alphas}

AmplitudeTexels == {<<a, F32(0), F32(0), F32(1)>> : a \in {<<0, 1>>, <<1, 2>>, <<1, 1>>}}

\* Value ranges (min < max: a surface that is not flat): the surface's own
\* (min, max), and ranges that leave samples below min and above max.
ZRanges(w, h) ==
    {[min |-> 0, max |-> w * h - 1]} \cup
    {r \in [min : 0..MaxRange, max : 0..MaxRange] : r.min < r.max}

\* The page as its script module loads it: the module state of demo.js and
\* the elements it reads, no pick requested.
PageIdle ==
    /\ isHeightMode = TRUE
    /\ isPollingEnabled = FALSE
    /\ isPolling = FALSE
    /\ btnHeightActive = TRUE
    /\ btnAmplitudeActive = FALSE
    /\ shaderCmds = <<>>
    /\ loadingHidden = FALSE
    /\ errorVisible = FALSE
    /\ uploads = <<>>
    /\ fetched = {}
    /\ awaiting = 0
    /\ pollTimers = 0
    /\ readout = <<"--", "--", "--">>
    /\ lastSettle = "none"
    /\ pickTarget = 0
    /\ prevTarget = 0
    /\ pickState = "Idle"
    /\ pickResult = 0
    /\ requests = 0
    /\ deliveredSince = {}

\* Host page state right after setupControls() of main, a viewer present.
HostInit ==
    /\ initCall = [thrower |-> "none", exc |-> "none", result |-> "true"]
    /\ startupPc = "timer"
    /\ PageIdle

GpuIdle ==
    /\ mip_level = 0
    /\ vindex = -1
    /\ z_sample = F32(0)
    /\ vout = NoOutput
    /\ fcall = NoOutput
    /\ fout = NoOutput
    /\ lodCmd = NoOutput

ShaderInit ==
    /\ program \in {ShaderFile, Part001}
    /\ image_dims \in [width : 2..MaxDim, height : 2..MaxDim]
    /\ z_range \in ZRanges(image_dims.width, image_dims.height)
    /\ GpuIdle
    /\ wasmViewer = TRUE
    /\ HostInit
    /\ request = NoOutput

\* The viewer's LOD stride, stride = max(mipLevel*2, 1), and the effective
\* (LOD) extent of one dimension, floor(d / stride).
LodStride(mip) == Max(mip * 2, 1)

EffectiveDim(d, mip) == d \div LodStride(mip)

\* The LOD-selection boundary of the viewer: a mip level whose grid would be
\* degenerate (an effective dimension <= 1) is rejected, prior state retained.
LodAccepts(mip) ==
    /\ EffectiveDim(image_dims.width, mip) >= 2
    /\ EffectiveDim(image_dims.height, mip) >= 2

SetMipLevel(mip) ==
    /\ program = ShaderFile
    /\ vout = NoOutput
    /\ IF LodAccepts(mip)
       THEN /\ mip_level' = mip
            /\ lodCmd' = [asked |-> mip, rejected |-> FALSE, prior |-> mip_level]
       ELSE /\ mip_level' = mip_level
            /\ lodCmd' = [asked |-> mip, rejected |-> TRUE, prior |-> mip_level]
    /\ vindex' = -1
    /\ z_sample' = F32(0)
    /\ vout' = NoOutput
    /\ fcall' = NoOutput
    /\ fout' = NoOutput
    /\ UNCHANGED <<program, image_dims, z_range, hostVars, serverVars>>

\* One invocation of the vertex entry point of the bound program.
VertexStage(index) ==
    /\ vout = NoOutput
    /\ vindex' = index
    /\ IF program = ShaderFile
       THEN LET resize == Resize(mip_level)
                col == (index % image_dims.width) \div resize
                row == (index \div image_dims.width) \div resize
            IN  \E texel \in textureLoad(col, row, mip_level) :
                    /\ z_sample' = texel
                    /\ vout' = vs_main(index, texel)
       ELSE \E texel \in textureLoad(index % image_dims.width,
                                     index \div image_dims.width, 0) :
                    /\ z_sample' = texel
                    /\ vout' = p1_vs_main(index, texel)
    /\ fcall' = NoOutput
    /\ fout' = NoOutput
    /\ lodCmd' = NoOutput
    /\ UNCHANGED <<program, image_dims, z_range, mip_level, hostVars, serverVars>>

\* The fragment entry point of the Height pipeline on the last vertex output.
FragmentHeight(overlay_color) ==
    /\ vout # NoOutput
    /\ fcall = NoOutput
    /\ fcall' = [entry |-> "fs_height", sampled |-> overlay_color]
    /\ fout' = IF program = ShaderFile
               THEN fs_height(vout, overlay_color)
               ELSE p1_fs_height(vout, overlay_color)
    /\ UNCHANGED <<program, image_dims, z_range, mip_level, vindex, z_sample,
                   vout, lodCmd, hostVars, serverVars>>

\* The fragment entry point of the Amplitude pipeline on the last vertex output.
FragmentAmplitude(sampled) ==
    /\ vout # NoOutput
    /\ fcall = NoOutput
    /\ fcall' = [entry |-> "fs_amplitude", sampled |-> sampled]
    /\ fout' = IF program = ShaderFile
               THEN fs_amplitude(vout, sampled)
               ELSE p1_fs_amplitude(vout, sampled)
    /\ UNCHANGED <<program, image_dims, z_range, mip_level, vindex, z_sample,
                   vout, lodCmd, hostVars, serverVars>>

\* The draw is over: the next one starts from the uniforms alone.
EndFrame ==
    /\ vout # NoOutput
    /\ vindex' = -1
    /\ z_sample' = F32(0)
    /\ vout' = NoOutput
    /\ fcall' = NoOutput
    /\ fout' = NoOutput
    /\ UNCHANGED <<program, image_dims, z_range, mip_level, lodCmd, hostVars, serverVars>>

ShaderNext ==
    \/ \E mip \in 0..MaxMip : SetMipLevel(mip)
    \/ \E index \in 0..(image_dims.width * image_dims.height - 1) : VertexStage(index)
    \/ \E overlay_color \in OverlayTexels : FragmentHeight(overlay_color)
    \/ \E sampled \in AmplitudeTexels : FragmentAmplitude(sampled)
    \/ EndFrame

SpecShader == ShaderInit /\ [][ShaderNext]_vars

(***************************************************************************)
(* The picking controller behind wasmViewer.get_pixel_value().             *)
(***************************************************************************)
Positions == 1..MaxPos

\* requestPick: the position replaces the pending target; the result of an
\* earlier request is no longer available.
RequestPick(pos) ==
    /\ prevTarget' = pickTarget
    /\ pickTarget' = pos
    /\ pickState' = "Requested"
    /\ pickResult' = 0
    /\ requests' = requests + 1
    /\ deliveredSince' = {}

\* After a completed frame the picking output at the last requested position
\* is resolved into the available PickResult.
RenderFrame ==
    /\ wasmViewer
    /\ pickState = "Requested"
    /\ pickState' = "Resolved"
    /\ pickResult' = pickTarget
    /\ UNCHANGED <<pickTarget, prevTarget, requests, deliveredSince>>
    /\ UNCHANGED <<serverVars, gpuVars, wasmViewer, modeVars, pollVars, startupPc, loadingHidden, initVars, uploads, fetched>>

\* What a get_pixel_value() promise may resolve to: the available PickResult
\* as an array [x, y, z] ("data"), an array of non-finite numbers when there
\* is none ("nodata"), or a value that is no array of length >= 3 ("invalid").
PixelValueResults ==
    (IF pickState = "Resolved"
     THEN {[kind |-> "data", pos |-> pickResult]}
     ELSE {[kind |-> "nodata", pos |-> 0]})
    \cup {[kind |-> "invalid", pos |-> 0]}

(***************************************************************************)
(* src/wasm-demo/src/demo.js                                               *)
(***************************************************************************)
\* Component i of a result array: the cell of the position, or NaN.
ResultComponent(result, i) ==
    IF result.kind = "data" THEN [finite |-> TRUE, n |-> result.pos]
    ELSE [finite |-> FALSE, n |-> 0]

\* Mutant of formatValue: no Number.isFinite test, so NaN is formatted.
formatValue_unchecked(value, roundToInt, decimals) ==
    IF ~value.finite THEN "NaN"
    ELSE IF roundToInt THEN ToString(value.n)
    ELSE IF decimals = 2 THEN ToString(value.n) \o ".00"
    ELSE ToString(value.n)

formatValue(value, roundToInt, decimals) ==
    IF ~value.finite THEN "--"
    ELSE IF roundToInt THEN ToString(value.n)
    ELSE IF decimals = 2 THEN ToString(value.n) \o ".00"
    ELSE ToString(value.n)

renderPixelReadout(x, y, z) ==
    <<formatValue(x, TRUE, 0), formatValue(y, TRUE, 0), formatValue(z, FALSE, 2)>>

\* The synchronous part of pollOnce(), up to its await: the new values of
\* isPolling and awaiting.
pollOnce(polling, calls) ==
    IF ~wasmViewer
    THEN [isPolling |-> FALSE, awaiting |-> calls]
    ELSE [isPolling |-> polling, awaiting |-> calls + 1]

\* Mutant of startPixelPolling: no guard against a second loop.
startPixelPolling_unguarded(polling, calls) == pollOnce(TRUE, calls)

startPixelPolling(polling, calls) ==
    IF polling
    THEN [isPolling |-> polling, awaiting |-> calls]
    ELSE pollOnce(TRUE, calls)

\* Mutant of AfterSettle: the next poll is scheduled inside the try block, so
\* a rejected call ends the loop.
AfterSettle_insideTry(rejected) == IF rejected THEN pollTimers ELSE pollTimers + 1

\* pollOnce after its try/catch: setTimeout(pollOnce, 100).
AfterSettle(rejected) == pollTimers + 1

\* Mutant of HeightClick: the command is sent whenever the viewer exists.
HeightClick_always ==
    /\ isHeightMode' = TRUE
    /\ btnHeightActive' = TRUE
    /\ btnAmplitudeActive' = FALSE
    /\ shaderCmds' = IF wasmViewer THEN Append(shaderCmds, "set_height_shader") ELSE shaderCmds

\* btnHeight click handler
HeightClick ==
    IF ~isHeightMode /\ wasmViewer
    THEN /\ isHeightMode' = TRUE
         /\ btnHeightActive' = TRUE
         /\ btnAmplitudeActive' = FALSE
         /\ shaderCmds' = Append(shaderCmds, "set_height_shader")
    ELSE UNCHANGED modeVars

\* btnAmplitude click handler
AmplitudeClick ==
    IF isHeightMode /\ wasmViewer
    THEN /\ isHeightMode' = FALSE
         /\ btnAmplitudeActive' = TRUE
         /\ btnHeightActive' = FALSE
         /\ shaderCmds' = Append(shaderCmds, "set_amplitude_shader")
    ELSE UNCHANGED modeVars

\* main has run setupControls(): the handlers are registered.
ControlsReady == startupPc \in {"timer", "surface", "amplitude", "done"}

ClickHeight ==
    /\ ControlsReady
    /\ Len(shaderCmds) < MaxCmds
    /\ HeightClick
    /\ UNCHANGED <<serverVars, gpuVars, wasmViewer, pollVars, pickVars, startupPc, loadingHidden, initVars, uploads, fetched>>

ClickAmplitude ==
    /\ ControlsReady
    /\ Len(shaderCmds) < MaxCmds
    /\ AmplitudeClick
    /\ UNCHANGED <<serverVars, gpuVars, wasmViewer, pollVars, pickVars, startupPc, loadingHidden, initVars, uploads, fetched>>

\* canvas mousemove: the viewer records the cursor position as the pick
\* request, and the page's handler enables and starts polling.
MouseMove(pos) ==
    /\ ControlsReady
    /\ requests < MaxRequests
    /\ IF wasmViewer
       THEN /\ RequestPick(pos)
            /\ isPollingEnabled' = TRUE
            /\ LET next == startPixelPolling(isPolling, awaiting)
               IN  /\ isPolling' = next.isPolling
                   /\ awaiting' = next.awaiting
       ELSE UNCHANGED <<pickVars, isPollingEnabled, isPolling, awaiting>>
    /\ UNCHANGED <<serverVars, gpuVars, wasmViewer, modeVars, pollTimers, readout, lastSettle,
                   startupPc, loadingHidden, initVars, uploads, fetched>>

\* canvas mouseleave
MouseLeave ==
    /\ ControlsReady
    /\ isPollingEnabled' = FALSE
    /\ UNCHANGED <<serverVars, gpuVars, wasmViewer, modeVars, isPolling, awaiting, pollTimers, readout,
                   lastSettle, pickVars, startupPc, loadingHidden, initVars, uploads, fetched>>

\* What throws in the try block of initWasm: nothing, init(), WasmViewer.new()
\* or wasmViewer.run().
Throwers == {"none", "init", "new", "run"}

\* The thrown value: an error whose message contains 'Using exceptions for
\* control flow', any other value that has properties (its message may be
\* missing), or null / undefined.
Exceptions == {"controlflow", "other", "nullish"}

\* Calls of the upload block of main's timer callback that may throw.
UploadThrowers == {"none", "set_surface", "set_amplitude"}

\* Mutant of initWasm: the viewer is stored only after run() has returned.
initWasm_storeAfterRun(thrower, exc) ==
    [viewer |-> thrower = "none",
     result |-> IF thrower = "none" \/ exc = "controlflow" THEN "true"
                ELSE IF exc = "nullish" THEN "threw" ELSE "false",
     error |-> thrower # "none" /\ exc = "other"]

\* initWasm(): viewer, whether wasmViewer is assigned (init() and
\* WasmViewer.new() completed); result, what the call returns ("threw": the
\* catch block itself throws on e.message of null / undefined); error, whether
\* showError() ran.
initWasm(thrower, exc) ==
    [viewer |-> thrower \in {"none", "run"},
     result |-> IF thrower = "none" \/ exc = "controlflow" THEN "true"
                ELSE IF exc = "nullish" THEN "threw" ELSE "false",
     error |-> thrower # "none" /\ exc = "other"]

\* main up to "await checkWebGPU()" and its result: without WebGPU showError()
\* runs and main returns.
CheckWebGPU(available) ==
    /\ startupPc = "checkWebGPU"
    /\ IF available
       THEN /\ startupPc' = "initWasm"
            /\ UNCHANGED <<loadingHidden, errorVisible>>
       ELSE /\ startupPc' = "failed"
            /\ loadingHidden' = TRUE
            /\ errorVisible' = TRUE
    /\ UNCHANGED <<serverVars, gpuVars, wasmViewer, modeVars, pollVars, pickVars, initCall, uploads, fetched>>

\* "await initWasm()" settles; when it returned true main goes on to
\* setupControls() and arms the 500 ms timer.
InitWasm(thrower, exc) ==
    /\ startupPc = "initWasm"
    /\ (thrower = "none") = (exc = "none")
    /\ LET call == initWasm(thrower, exc)
       IN  /\ wasmViewer' = call.viewer
           /\ initCall' = [thrower |-> thrower, exc |-> exc, result |-> call.result]
           /\ startupPc' = IF call.result = "true" THEN "timer" ELSE "failed"
           /\ IF call.error
              THEN loadingHidden' = TRUE /\ errorVisible' = TRUE
              ELSE UNCHANGED <<loadingHidden, errorVisible>>
    /\ UNCHANGED <<serverVars, gpuVars, modeVars, pollVars, pickVars, uploads, fetched>>

\* The tail of main's 500 ms callback: start polling if there is a viewer.
StartupTail ==
    /\ startupPc' = "done"
    /\ IF wasmViewer
       THEN /\ isPollingEnabled' = TRUE
            /\ LET next == startPixelPolling(isPolling, awaiting)
               IN  /\ isPolling' = next.isPolling
                   /\ awaiting' = next.awaiting
       ELSE UNCHANGED <<isPollingEnabled, isPolling, awaiting>>

\* The 500 ms timer of main fires: the callback runs up to
\* "await loadSurfaceData()".
StartupTimer ==
    /\ startupPc = "timer"
    /\ startupPc' = "surface"
    /\ UNCHANGED <<serverVars, gpuVars, wasmViewer, modeVars, pollVars, pickVars, loadingHidden,
                   initVars, uploads, fetched>>

\* loadSurfaceData() settles: on success the callback goes on to
\* "await loadAmplitudeData()", on failure to its catch and tail.
SurfaceLoaded(ok) ==
    /\ startupPc = "surface"
    /\ IF ok
       THEN /\ startupPc' = "amplitude"
            /\ fetched' = fetched \cup {"surface"}
            /\ UNCHANGED <<isPollingEnabled, isPolling, awaiting>>
       ELSE /\ StartupTail
            /\ fetched' = fetched
    /\ UNCHANGED <<serverVars, gpuVars, wasmViewer, modeVars, pollTimers, readout, lastSettle, pickVars,
                   loadingHidden, initVars, uploads>>

\* loadAmplitudeData() settles: on success, with a viewer, set_surface,
\* set_amplitude and hideLoading() run in that order, up to the call that
\* throws (thrower); then the tail.
AmplitudeLoaded(ok, thrower) ==
    /\ startupPc = "amplitude"
    /\ fetched' = IF ok THEN fetched \cup {"amplitude"} ELSE fetched
    /\ IF ok /\ wasmViewer
       THEN /\ uploads' = IF thrower = "set_surface"
                          THEN Append(uploads, "set_surface")
                          ELSE uploads \o <<"set_surface", "set_amplitude">>
            /\ loadingHidden' = IF thrower = "none" THEN TRUE ELSE loadingHidden
       ELSE UNCHANGED <<uploads, loadingHidden>>
    /\ StartupTail
    /\ UNCHANGED <<serverVars, gpuVars, wasmViewer, modeVars, pollTimers, readout, lastSettle, pickVars,
                   initVars>>

\* The awaited get_pixel_value() resolves: pollOnce shows a valid result and
\* schedules the next poll.
GetPixelResolve(result) ==
    /\ awaiting > 0
    /\ awaiting' = awaiting - 1
    /\ IF result.kind # "invalid"
       THEN readout' = renderPixelReadout(ResultComponent(result, 1),
                                          ResultComponent(result, 2),
                                          ResultComponent(result, 3))
       ELSE readout' = readout
    /\ lastSettle' = result.kind
    /\ deliveredSince' = IF result.kind = "data"
                         THEN deliveredSince \cup {result.pos}
                         ELSE deliveredSince
    /\ pollTimers' = AfterSettle(FALSE)
    /\ UNCHANGED <<serverVars, gpuVars, wasmViewer, modeVars, isPollingEnabled, isPolling,
                   pickTarget, prevTarget, pickState, pickResult, requests,
                   startupPc, loadingHidden, initVars, uploads, fetched>>

\* The resolution that carries the available PickResult.
GetPixelData ==
    \E result \in PixelValueResults : result.kind = "data" /\ GetPixelResolve(result)

\* The awaited get_pixel_value() rejects: the catch logs, the next poll is
\* scheduled.
GetPixelReject ==
    /\ awaiting > 0
    /\ awaiting' = awaiting - 1
    /\ pollTimers' = AfterSettle(TRUE)
    /\ lastSettle' = "rejected"
    /\ UNCHANGED <<serverVars, gpuVars, wasmViewer, modeVars, isPollingEnabled, isPolling, readout,
                   pickVars, startupPc, loadingHidden, initVars, uploads, fetched>>

\* A 100 ms timer fires: pollOnce runs up to its await.
PollTimer ==
    /\ pollTimers > 0
    /\ pollTimers' = pollTimers - 1
    /\ LET next == pollOnce(isPolling, awaiting)
       IN  /\ isPolling' = next.isPolling
           /\ awaiting' = next.awaiting
    /\ lastSettle' = "none"
    /\ UNCHANGED <<serverVars, gpuVars, wasmViewer, modeVars, isPollingEnabled, readout,
                   pickVars, startupPc, loadingHidden, initVars, uploads, fetched>>

\* The page when main starts.
Init ==
    /\ wasmViewer = FALSE
    /\ initCall = NoOutput
    /\ startupPc = "checkWebGPU"
    /\ PageIdle
    /\ request = NoOutput
    /\ program = ShaderFile
    /\ image_dims = [width |-> 2, height |-> 2]
    /\ z_range = [min |-> 0, max |-> 3]
    /\ GpuIdle

Next ==
    \/ \E available \in BOOLEAN : CheckWebGPU(available)
    \/ \E thrower \in Throwers, exc \in Exceptions \cup {"none"} : InitWasm(thrower, exc)
    \/ ClickHeight
    \/ ClickAmplitude
    \/ \E pos \in Positions : MouseMove(pos)
    \/ MouseLeave
    \/ StartupTimer
    \/ \E ok \in BOOLEAN : SurfaceLoaded(ok)
    \/ \E ok \in BOOLEAN, thrower \in UploadThrowers : AmplitudeLoaded(ok, thrower)
    \/ RenderFrame
    \/ \E result \in PixelValueResults : GetPixelResolve(result)
    \/ GetPixelReject
    \/ PollTimer

Spec == Init /\ [][Next]_vars

\* Timers fire, pending loads and calls settle, frames keep being rendered,
\* and a poll for an available result is not rejected for ever.
Fairness ==
    /\ WF_vars(\E available \in BOOLEAN : CheckWebGPU(available))
    /\ WF_vars(\E thrower \in Throwers, exc \in Exceptions \cup {"none"} : InitWasm(thrower, exc))
    /\ WF_vars(StartupTimer)
    /\ WF_vars(\E ok \in BOOLEAN : SurfaceLoaded(ok))
    /\ WF_vars(\E ok \in BOOLEAN, thrower \in UploadThrowers : AmplitudeLoaded(ok, thrower))
    /\ WF_vars(PollTimer)
    /\ WF_vars(RenderFrame)
    /\ WF_vars(GetPixelReject \/ \E result \in PixelValueResults : GetPixelResolve(result))
    /\ SF_vars(GetPixelData)

FairSpec == Spec /\ Fairness

(***************************************************************************)
(* src/unnamed/part_000: the static file server, specification SpecServer. *)
(* Strings are sequences of one-character strings.                         *)
(***************************************************************************)
\* var ROOT_DIR = __dirname; here the directory /a.
ROOT_DIR == <<"/", "a">>

\* '/index.html', written /i.
IndexHtml == <<"/", "i">>

\* The regular files of the machine: /a/i and /a/b under ROOT_DIR, /ab and /b
\* outside of it.
Files == {<<"/", "a", "/", "i">>, <<"/", "a", "/", "b">>, <<"/", "a", "b">>, <<"/", "b">>}

\* Characters of a request URL.
UrlChars == {"/", ".", "a", "b", "?"}

\* Request URLs in origin form: '/' followed by up to MaxUrlLen - 1 characters.
Urls ==
    {<<"/">> \o rest : rest \in UNION {[1..n -> UrlChars] : n \in 0..(MaxUrlLen - 1)}}

\* str.indexOf(prefix) === 0
StartsWith(str, prefix) ==
    Len(str) >= Len(prefix) /\ SubSeq(str, 1, Len(prefix)) = prefix

\* req.url.split('?')[0]
RECURSIVE BeforeQuery(_)
BeforeQuery(url) ==
    IF url = <<>> \/ Head(url) = "?" THEN <<>>
    ELSE <<Head(url)>> \o BeforeQuery(Tail(url))

\* The segments of str[i..] between '/' characters; cur is the segment read
\* so far.
RECURSIVE Segments(_, _, _)
Segments(str, i, cur) ==
    IF i > Len(str) THEN <<cur>>
    ELSE IF str[i] = "/" THEN <<cur>> \o Segments(str, i + 1, <<>>)
    ELSE Segments(str, i + 1, Append(cur, str[i]))

\* path.normalize on the segments of an absolute path: '' and '.' are
\* dropped, '..' removes the segment before it (none at the root).
RECURSIVE Resolve(_, _)
Resolve(segs, stack) ==
    IF segs = <<>> THEN stack
    ELSE IF Head(segs) = <<>> \/ Head(segs) = <<".">> THEN Resolve(Tail(segs), stack)
    ELSE IF Head(segs) = <<".", ".">>
         THEN Resolve(Tail(segs),
                      IF stack = <<>> THEN stack ELSE SubSeq(stack, 1, Len(stack) - 1))
    ELSE Resolve(Tail(segs), Append(stack, Head(segs)))

RECURSIVE JoinSegments(_)
JoinSegments(stack) ==
    IF stack = <<>> THEN <<>>
    ELSE <<"/">> \o Head(stack) \o JoinSegments(Tail(stack))

\* path.join(dir, urlPath) for an absolute dir: the two joined by '/' and
\* normalised; a trailing '/' is kept.
PathJoin(dir, urlPath) ==
    LET joined == IF urlPath = <<>> THEN dir ELSE dir \o <<"/">> \o urlPath
        stack == Resolve(Segments(joined, 1, <<>>), <<>>)
    IN  IF stack = <<>> THEN <<"/">>
        ELSE IF joined[Len(joined)] = "/" THEN JoinSegments(stack) \o <<"/">>
        ELSE JoinSegments(stack)

\* handleRequest up to fs.stat: the 403 answer, or the stat pending.
HandleRequest(url) ==
    /\ request = NoOutput
    /\ LET split == BeforeQuery(url)
           urlPath == IF split = <<"/">> THEN IndexHtml ELSE split
           filePath == PathJoin(ROOT_DIR, urlPath)
       IN  request' = [url |-> url,
                       filePath |-> filePath,
                       response |-> IF ~StartsWith(filePath, ROOT_DIR) THEN "403"
                                    ELSE "pending"]
    /\ UNCHANGED <<gpuVars, hostVars>>

\* The callback of fs.stat: 404 unless filePath is a regular file, else the
\* file is streamed with status 200.
StatCallback ==
    /\ request # NoOutput
    /\ request.response = "pending"
    /\ request' = [request EXCEPT !.response =
                       IF request.filePath \in Files THEN "200" ELSE "404"]
    /\ UNCHANGED <<gpuVars, hostVars>>

ServerNext ==
    \/ \E url \in Urls : HandleRequest(url)
    \/ StatCallback

SpecServer == Init /\ [][ServerNext]_vars

(***************************************************************************)
(* Properties of the render programs (checked under SpecShader).           *)
(***************************************************************************)
Width == image_dims.width
Height == image_dims.height
Indices == 0..(Width * Height - 1)

VertexRan == program = ShaderFile /\ vout # NoOutput

\* The state right after a vertex invocation of shader.wgsl.
VertexJustRan == VertexRan /\ fcall = NoOutput

\* The (col, row) pair vs_main gives index i (the texel does not enter it).
PixelOf(i) == vs_main(i, F32(0)).pixel

InBounds ==
    /\ vout.pixel[1] >= 0 /\ vout.pixel[1] <= Width \div vout.resize - 1
    /\ vout.pixel[2] >= 0 /\ vout.pixel[2] <= Height \div vout.resize - 1
    /\ RLe(F32(-1), vout.points[1]) /\ RLe(vout.points[1], F32(1))
    /\ RLe(F32(-1), vout.points[2]) /\ RLe(vout.points[2], F32(1))

\* The corners of the index grid sit on the corners of NDC.
CornersOnNdc ==
    /\ vindex % Width = 0 => REq(vout.points[1], F32(-1))
    /\ vindex % Width = Width - 1 => REq(vout.points[1], F32(1))
    /\ vindex \div Width = 0 => REq(vout.points[2], F32(1))
    /\ vindex \div Width = Height - 1 => REq(vout.points[2], F32(-1))

\* An index whose column and row are multiples of the stride.
OnLattice(i, stride) == (i % Width) % stride = 0 /\ (i \div Width) % stride = 0

C4_PickingModeIndependent ==
    (program = ShaderFile /\ fout # NoOutput) =>
        LET stride == Max(mip_level * 2, 1)
            col == (vindex % Width) \div stride
            row == (vindex \div Width) \div stride
        IN  /\ fout.picking = <<col * stride, row * stride>>
            /\ fout.picking[1] \in 0..(Width - 1)
            /\ fout.picking[2] \in 0..(Height - 1)
            /\ fcall.entry = "fs_amplitude" =>
                   \A o \in OverlayTexels : fs_height(vout, o).picking = fout.picking
            /\ fcall.entry = "fs_height" =>
                   \A a \in AmplitudeTexels : fs_amplitude(vout, a).picking = fout.picking

\* C4's case: an Amplitude fragment of a decimated grid.
C4_Witness ==
    /\ program = ShaderFile
    /\ fout # NoOutput
    /\ fcall.entry = "fs_amplitude"
    /\ mip_level = 1
    /\ vout.pixel = <<1, 1>>
    /\ fout.picking = <<2, 2>>

\* The grayscale depth the bound program gives the last vertex output.
DepthOf == IF program = ShaderFile THEN fs_height_depth(vout) ELSE p1_fs_height_depth(vout)

HeightFragment == fout # NoOutput /\ fcall.entry = "fs_height"

\* C5: in Height mode an overlay alpha of 0 leaves the base colour, 1 replaces
\* its rgb by the overlay's, 1/2 gives the per-channel mean, and the output
\* alpha is 1; in Amplitude mode the colour is (1-a, a, 0, 1).
C5_OverlayBlend ==
    /\ HeightFragment =>
         LET o == fcall.sampled
             d == DepthOf
         IN  /\ REq(fout.color[4], F32(1))
             /\ \A i \in 1..3 :
                  /\ REq(o[4], F32(0)) => REq(fout.color[i], d)
                  /\ REq(o[4], F32(1)) => REq(fout.color[i], o[i])
                  /\ REq(o[4], <<1, 2>>) =>
                         REq(RMul(F32(2), fout.color[i]), RAdd(o[i], d))
    /\ (fout # NoOutput /\ fcall.entry = "fs_amplitude") =>
         LET a == fcall.sampled[1]
         IN  /\ REq(fout.color[1], RSub(F32(1), a))
             /\ REq(fout.color[2], a)
             /\ REq(fout.color[3], F32(0))
             /\ REq(fout.color[4], F32(1))

\* C5's case: a half-transparent red overlay over a mid-gray cell.
C5_Witness ==
    /\ HeightFragment
    /\ fcall.sampled = <<F32(1), F32(0), F32(0), <<1, 2>>>>
    /\ REq(DepthOf, <<1, 2>>)
    /\ REq(fout.color[1], <<3, 4>>)
    /\ REq(fout.color[2], <<1, 4>>)

NoOverlay == HeightFragment /\ REq(fcall.sampled[4], F32(0))

\* C6 as stated: with min < max, in every height fragment shader the depth of
\* a cell whose sample is min is 0 and of a cell whose sample is max is 1.
C6_DepthEndpoints ==
    (NoOverlay /\ z_range.min < z_range.max) =>
        /\ REq(z_sample, F32(z_range.min)) => REq(fout.color[1], F32(0))
        /\ REq(z_sample, F32(z_range.max)) => REq(fout.color[1], F32(1))

\* C6 amended: that holds of fs_height of src/src/shader.wgsl; the fs_height
\* of src/unnamed/part_001 gives 0.05 for min and 1 for max.
C6_DepthEndpointsPerShader ==
    (NoOverlay /\ z_range.min < z_range.max) =>
        /\ REq(z_sample, F32(z_range.min)) =>
               REq(fout.color[1], IF program = ShaderFile THEN F32(0) ELSE <<1, 20>>)
        /\ REq(z_sample, F32(z_range.max)) => REq(fout.color[1], F32(1))
        /\ \A i \in 2..3 : fout.color[i] = fout.color[1]

\* C6's case: part_001 shades a cell holding min (> 0) of the range.
C6_Witness ==
    /\ NoOverlay
    /\ program = Part001
    /\ z_range.min > 0
    /\ REq(z_sample, F32(z_range.min))
    /\ REq(fout.color[1], <<1, 20>>)

Scenario ==
    /\ program = ShaderFile
    /\ image_dims = [width |-> 4, height |-> 4]
    /\ mip_level = 0
    /\ z_range = [min |-> 0, max |-> 15]
    /\ vindex = 15
    /\ NoOverlay

\* C7 as stated: width = height = 4, stride 1, heights 0..15, range (0, 15):
\* index 15 is (col, row) = (3, 3) at NDC (1, 1) with depth 1, its picking
\* datum is (3, 3) and the PickResult {column: 3, row: 3, value: 15} (the
\* picking datum and the height sample of that cell).
C7_Scenario ==
    Scenario =>
        /\ vout.pixel = <<3, 3>>
        /\ REq(vout.points[1], F32(1))
        /\ REq(vout.points[2], F32(1))
        /\ REq(fout.color[1], F32(1))
        /\ fout.picking = <<3, 3>>
        /\ z_sample = F32(15)
        /\ vout.z_value = F32(15)

\* C7 amended: the same, at NDC (1, -1): y = 1 - 2*row/(effH-1) puts row 0 at
\* the top and the last row at y = -1 (and the vertex z is 0).
C7_ScenarioFlipped ==
    Scenario =>
        /\ vout.pixel = <<3, 3>>
        /\ REq(vout.points[1], F32(1))
        /\ REq(vout.points[2], F32(-1))
        /\ REq(vout.points[3], F32(0))
        /\ REq(fout.color[1], F32(1))
        /\ fout.picking = <<3, 3>>
        /\ z_sample = F32(15)
        /\ vout.z_value = F32(15)

\* C7's case: the scenario's fragment exists and holds the sample 15.
C7_Witness == Scenario /\ z_sample = F32(15)

C10_DepthIsOneMinusZ ==
    NoOverlay =>
        /\ RLe(F32(0), fout.color[1]) /\ RLe(fout.color[1], F32(1))
        /\ REq(fout.color[1], RSub(F32(1), vout.points[3]))

\* C10 amended: that holds of src/src/shader.wgsl (with min < max); in
\* src/unnamed/part_001 nothing is clamped and
\* depth = 0.05 + 0.95 * (1 - z), which leaves [0, 1] for samples outside
\* [min, max].
C10_DepthPerShader ==
    (NoOverlay /\ z_range.min < z_range.max) =>
        IF program = ShaderFile
        THEN /\ RLe(F32(0), fout.color[1]) /\ RLe(fout.color[1], F32(1))
             /\ REq(fout.color[1], RSub(F32(1), vout.points[3]))
             /\ vout.z_value = IF RLe(z_sample, F32(z_range.min)) THEN F32(z_range.min)
                               ELSE IF RLe(F32(z_range.max), z_sample) THEN F32(z_range.max)
                               ELSE z_sample
        ELSE /\ REq(fout.color[1],
                    RAdd(<<1, 20>>, RMul(<<19, 20>>, RSub(F32(1), vout.points[3]))))
             /\ vout.z_value = z_sample
             /\ RGt(z_sample, F32(z_range.max)) => RGt(fout.color[1], F32(1))
             /\ RGt(F32(z_range.min), z_sample) => RGt(vout.points[3], F32(1))

\* C10's case: shader.wgsl shades a sample above max: depth 1, z 0.
C10_Witness ==
    /\ NoOverlay
    /\ program = ShaderFile
    /\ RGt(z_sample, F32(z_range.max))
    /\ REq(fout.color[1], F32(1))
    /\ REq(vout.points[3], F32(0))

\* C11: for every mip level and vertex index, the surface texel vs_main loads,
\* (col, row) of texture mip level mip_level, lies inside that level's extent
\* and is the sample of the full-resolution cell (col*stride, row*stride), the
\* cell the fragment stage samples and emits as picking datum.
C11_TexelIsLodCell ==
    VertexRan =>
        /\ vout.pixel[1] < MipExtent(Width, mip_level)
        /\ vout.pixel[2] < MipExtent(Height, mip_level)
        /\ z_sample = SurfaceTexel(vout.pixel[1] * vout.resize, vout.pixel[2] * vout.resize)

C3_SinglePollLoop ==
    /\ awaiting + pollTimers <= 1
    /\ awaiting <= 1
    /\ awaiting + pollTimers = 1 => isPolling

\* C3's case: the loop waits for its timer after the start-up callback and
\* two mousemove events each tried to start polling.
C3_Witness ==
    /\ startupPc = "done"
    /\ requests >= 2
    /\ isPolling
    /\ pollTimers = 1
    /\ awaiting = 0

\* C9: isHeightMode is the mode of the last shader-switch command (Height if
\* none), exactly the matching button is 'active', and commands are sent only
\* by clicks that change the mode (so they alternate, Amplitude first), never
\* without a viewer.
C9_ExactlyOneMode ==
    /\ isHeightMode = (shaderCmds = <<>> \/ shaderCmds[Len(shaderCmds)] = "set_height_shader")
    /\ btnHeightActive = isHeightMode
    /\ btnAmplitudeActive = ~isHeightMode
    /\ \A i \in 1..Len(shaderCmds) :
           shaderCmds[i] = IF i % 2 = 1 THEN "set_amplitude_shader" ELSE "set_height_shader"
    /\ ~wasmViewer => shaderCmds = <<>>

\* C9's case: Amplitude then Height were clicked.
C9_Witness ==
    /\ shaderCmds = <<"set_amplitude_shader", "set_height_shader">>
    /\ isHeightMode
    /\ btnHeightActive

\* C12: a get_pixel_value call that rejects, or resolves to a value that is
\* no array of length >= 3, leaves the readout unchanged; however the call
\* settles, pollOnce ends by scheduling the next poll (nothing escapes it);
\* non-finite components of a valid result are shown as '--'.
C12_PollErrorsContained ==
    /\ [][(awaiting' < awaiting /\ lastSettle' \in {"rejected", "invalid"})
              => readout' = readout]_vars
    /\ [][awaiting' < awaiting => pollTimers' = pollTimers + 1]_vars
    /\ [](lastSettle = "nodata" => readout = <<"--", "--", "--">>)
    /\ [](lastSettle # "none" => awaiting + pollTimers = 1)

\* C12's case: a call rejected while the readout showed the result for
\* position 1; the readout is kept and the next poll is scheduled.
C12_Witness ==
    /\ lastSettle = "rejected"
    /\ readout = <<"1", "1", "1.00">>
    /\ pollTimers = 1

C15_PollOnlyWhileEnabled ==
    [][awaiting' > awaiting => isPollingEnabled']_vars

\* C16: when WebGPU is available and initWasm returned true, the start-up
\* callback ends with the loading overlay hidden, also when a fetch failed;
\* set_amplitude is called only right after set_surface, both files fetched.
C16_LoadingHiddenAfterStartup ==
    /\ startupPc = "done" => loadingHidden
    /\ \A i \in DOMAIN uploads :
           uploads[i] = "set_amplitude" => (i > 1 /\ uploads[i - 1] = "set_surface")
    /\ uploads # <<>> => fetched = {"surface", "amplitude"}

(***************************************************************************)
(* Properties of the static server (checked under SpecServer).             *)
(***************************************************************************)
\* A path inside the directory tree of ROOT_DIR.
InsideRoot(path) == path = ROOT_DIR \/ StartsWith(path, ROOT_DIR \o <<"/">>)

\* C14: the server never serves a file outside ROOT_DIR: a request whose
\* resolved path is outside the tree of ROOT_DIR is answered 403 and no file
\* is looked up or read; every request gets one of 403, 404, 200.
C14_NeverOutsideRoot ==
    request # NoOutput =>
        /\ request.response \in {"pending", "403", "404", "200"}
        /\ request.response = "403" => ~InsideRoot(request.filePath)
        /\ request.response = "200" => InsideRoot(request.filePath)

=============================================================================
